---------------------------- MODULE Spec2Model ----------------------------
(***************************************************************************)
(* Flat accounting of the chunk cache (package accnt, FlatAccnt).          *)
(*                                                                         *)
(* Producers submit events with a non-blocking send on eventQ; a single    *)
(* goroutine (eventLoop) receives them, applies them to the per-metric     *)
(* byte ledger (metrics), to the recency index (lru) and to the process    *)
(* wide counters, and then evicts until cacheSizeUsed <= maxSize, pushing  *)
(* every evicted chunk on evictQ with a blocking send.                     *)
(*                                                                         *)
(* Sizes are uint64 in the source; all values of the model stay far below  *)
(* 2^64, so no arithmetic of the model wraps.                              *)
(***************************************************************************)
EXTENDS Integers, Sequences, FiniteSets, TLC

\* ---------------------------------------------------------------- bounds
\* capacity of eventQ in the model (eventQSize = 100000 in the source)
EventQCap == 1
\* capacity of evictQ in the model (evictQSize = 1000 in the source)
EvictQCap == 1
\* number of calls of the public API the producers make in one behaviour
MaxCalls == 4
\* number of calls of the public API in a behaviour of FairSpec
MaxFairCalls == 2
\* chunk timestamps are 1..MaxTs
MaxTs == 2
\* chunk sizes are 0..MaxChunkSize
MaxChunkSize == 1
\* the configured maxSize is one of 0..MaxBudget
MaxBudget == 1

Metrics == {"a", "b"}
Producers == {"p1", "p2"}
Tss == 1..MaxTs
Sizes == 0..MaxChunkSize

\* event types to be used in FlatAccntEvent
evnt_hit_chnk == 4
evnt_add_chnk == 5
evnt_del_met == 6
evnt_get_total == 7
evnt_stop == 100
evnt_reset == 101

VARIABLES
    metrics,          \* a.metrics: metric key -> [total, chunks: ts -> size]
    maxSize,          \* a.maxSize
    lru,              \* a.lru: ChunkIds, least recently used first
    evictQ,           \* a.evictQ
    eventQ,           \* a.eventQ
    cacheSizeUsed,    \* stat cacheSizeUsed
    cacheChunkAdd,    \* stat cacheChunkAdd
    cacheMetricAdd,   \* stat cacheMetricAdd
    cacheChunkEvict,  \* stat cacheChunkEvict
    cacheMetricEvict, \* stat cacheMetricEvict
    pc,               \* position of the eventLoop goroutine
    target,           \* evict(): the popped EvictTarget
    targets,          \* evict(): the timestamps still to be evicted
    pstate,           \* per producer: "idle" or "waiting" (in <-res_chan)
    result,           \* per producer: the value GetTotal returned last
    nCalls,           \* number of API calls made so far
    nDropped,         \* number of events act() discarded
    stopCalled,       \* history: Stop() has been called
    evStep,           \* history of the current/last call of evict()
    curEv,            \* the event received last
    curPre,           \* history: state when curEv was received
    prevEv,           \* the event received before curEv
    prevPre,          \* history: state when prevEv was received
    prevPost,         \* history: state when prevEv was fully processed
    nPushed,          \* history: number of sends on evictQ so far
    sinceReset        \* history: a fresh accountant fed the events received
                      \* since the last Reset, and the sends since then

acctVars == <<metrics, maxSize, lru, evictQ, cacheSizeUsed, cacheChunkAdd,
              cacheMetricAdd, cacheChunkEvict, cacheMetricEvict, pc, target,
              targets>>
histVars == <<evStep, curEv, curPre, prevEv, prevPre, prevPost, nPushed,
             sinceReset>>
vars == <<metrics, maxSize, lru, evictQ, eventQ, cacheSizeUsed, cacheChunkAdd,
          cacheMetricAdd, cacheChunkEvict, cacheMetricEvict, pc, target,
          targets, pstate, result, nCalls, nDropped, stopCalled, evStep, curEv, curPre,
          prevEv, prevPre, prevPost, nPushed, sinceReset>>

\* ------------------------------------------------------------ data model
EvictTarget(m, t) == [Metric |-> m, Ts |-> t]
NoTarget == [Metric |-> "-", Ts |-> 0]

FlatAccntEvent(t, m, ts, size, rc) ==
    [t |-> t, metric |-> m, ts |-> ts, size |-> size, res_chan |-> rc]
NoEvent == FlatAccntEvent(0, "-", 0, 0, "-")

\* map[uint32]uint64 with no key
NoChunks == [ts \in {} |-> 0]
\* map[string]*FlatAccntMet with no key
NoMetrics == [m \in {} |-> [total |-> 0, chunks |-> NoChunks]]

RECURSIVE SumOver(_, _)
SumOver(f, S) ==
    IF S = {} THEN 0
    ELSE LET x == CHOOSE y \in S : TRUE IN f[x] + SumOver(f, S \ {x})

\* sum of the sizes of a chunk map
SumChunks(chunks) == SumOver(chunks, DOMAIN chunks)

\* the ChunkIds that have a chunk entry in the ledger mets
LedgerIdsOf(mets) ==
    {EvictTarget(m, t) : m \in DOMAIN mets, t \in Tss} \cap
    UNION {{EvictTarget(m, t) : t \in DOMAIN mets[m].chunks} : m \in DOMAIN mets}
LedgerIds == LedgerIdsOf(metrics)

SeqToSet(s) == {s[i] : i \in 1..Len(s)}
LruIds == SeqToSet(lru)

\* ---------------------------------------------------------- recency index
Remove(s, e) == SelectSeq(s, LAMBDA x : x # e)
\* LRU.touch: move to (or insert at) the most recently used end
touch(l, e) == Append(Remove(l, e), e)
\* LRU.del: remove if present
del(l, e) == Remove(l, e)
\* LRU.pop: the least recently used entry, nil when empty
popped(l) == IF l = <<>> THEN NoTarget ELSE Head(l)
popRest(l) == IF l = <<>> THEN l ELSE Tail(l)
\* LRU.reset
lruReset == <<>>

RECURSIVE delAll(_, _, _)
delAll(l, m, S) ==
    IF S = {} THEN l
    ELSE LET t == CHOOSE y \in S : TRUE
         IN delAll(del(l, EvictTarget(m, t)), m, S \ {t})

\* ------------------------------------------------------------------- act
actMutDropOldest(q, ev) ==
    IF Len(q) < EventQCap THEN Append(q, ev) ELSE Append(Tail(q), ev)
\* the select of act(): send if eventQ has room, otherwise discard
act(q, ev) == IF Len(q) < EventQCap THEN Append(q, ev) ELSE q

Submit(ev) ==
    /\ nCalls < MaxCalls
    /\ nCalls' = nCalls + 1
    /\ eventQ' = act(eventQ, ev)
    /\ nDropped' = IF Len(eventQ) < EventQCap THEN nDropped ELSE nDropped + 1
    /\ stopCalled' = (stopCalled \/ ev.t = evnt_stop)
    /\ UNCHANGED acctVars
    /\ UNCHANGED histVars

AddChunk(p, m, t, s) ==
    /\ pstate[p] = "idle"
    /\ Submit(FlatAccntEvent(evnt_add_chnk, m, t, s, "-"))
    /\ UNCHANGED <<pstate, result>>

HitChunk(p, m, t) ==
    /\ pstate[p] = "idle"
    /\ Submit(FlatAccntEvent(evnt_hit_chnk, m, t, 0, "-"))
    /\ UNCHANGED <<pstate, result>>

DelMetric(p, m) ==
    /\ pstate[p] = "idle"
    /\ Submit(FlatAccntEvent(evnt_del_met, m, 0, 0, "-"))
    /\ UNCHANGED <<pstate, result>>

Reset(p) ==
    /\ pstate[p] = "idle"
    /\ Submit(FlatAccntEvent(evnt_reset, "-", 0, 0, "-"))
    /\ UNCHANGED <<pstate, result>>

Stop(p) ==
    /\ pstate[p] = "idle"
    /\ Submit(FlatAccntEvent(evnt_stop, "-", 0, 0, "-"))
    /\ UNCHANGED <<pstate, result>>

\* GetTotal: submit, then block in <-res_chan (also when the event was
\* discarded)
GetTotal(p) ==
    /\ pstate[p] = "idle"
    /\ Submit(FlatAccntEvent(evnt_get_total, "-", 0, 0, p))
    /\ pstate' = [pstate EXCEPT ![p] = "waiting"]
    /\ UNCHANGED result


\* ------------------------------------------------------------- history
NoStep == [target |-> NoTarget, found |-> FALSE, chunks |-> NoChunks,
           oldest |-> NoTarget, batch |-> <<>>, taken |-> <<>>,
           done |-> FALSE]
NoPre == [used |-> 0, mets |-> {}, pushed |-> 0, over |-> FALSE]
NoPost == [metrics |-> NoMetrics, used |-> 0, lru |-> <<>>]

\* the least recently touched ChunkId of l that has a chunk entry in mets
RECURSIVE OldestIn(_, _)
OldestIn(l, mets) ==
    IF l = <<>> THEN NoTarget
    ELSE IF Head(l) \in LedgerIdsOf(mets) THEN Head(l)
    ELSE OldestIn(Tail(l), mets)

\* curEv followed by ev is a second AddChunk of the same ChunkId
IsAddAdd(ev) ==
    /\ curEv.t = evnt_add_chnk /\ ev.t = evnt_add_chnk
    /\ curEv.metric = ev.metric /\ curEv.ts = ev.ts
\* curEv followed by ev is AddChunk(m, t, s) followed by DelMetric(m)
IsAddDel(ev) ==
    /\ curEv.t = evnt_add_chnk /\ ev.t = evnt_del_met
    /\ curEv.metric = ev.metric

\* -------------------------------------------------------------- ledger
addMutNoDupCheck(mets, used, m, ts, size) ==
    LET known == m \in DOMAIN mets
        met == IF known THEN mets[m] ELSE [total |-> 0, chunks |-> NoChunks]
        chunks == [t \in DOMAIN met.chunks \cup {ts} |->
                      IF t = ts THEN size ELSE met.chunks[t]]
    IN [metrics |-> [k \in DOMAIN mets \cup {m} |->
                        IF k = m THEN [total |-> met.total + size, chunks |-> chunks]
                        ELSE mets[k]],
        used |-> used + size,
        newMetric |-> ~known]
addMutOverwrite(mets, used, m, ts, size) ==
    LET known == m \in DOMAIN mets
        met == IF known THEN mets[m] ELSE [total |-> 0, chunks |-> NoChunks]
        old == IF ts \in DOMAIN met.chunks THEN met.chunks[ts] ELSE 0
        chunks == [t \in DOMAIN met.chunks \cup {ts} |->
                      IF t = ts THEN size ELSE met.chunks[t]]
    IN [metrics |-> [k \in DOMAIN mets \cup {m} |->
                        IF k = m THEN [total |-> met.total - old + size,
                                       chunks |-> chunks]
                        ELSE mets[k]],
        used |-> used - old + size,
        newMetric |-> ~known]
\* FlatAccnt.add: create the metric on demand; a chunk that is already
\* there is left alone; otherwise record its size and add it to the totals
add(mets, used, m, ts, size) ==
    LET known == m \in DOMAIN mets
        met == IF known THEN mets[m] ELSE [total |-> 0, chunks |-> NoChunks]
        withMet == [k \in DOMAIN mets \cup {m} |-> IF k = m THEN met ELSE mets[k]]
    IN IF ts \in DOMAIN met.chunks
       THEN [metrics |-> withMet, used |-> used, newMetric |-> ~known]
       ELSE LET chunks == [t \in DOMAIN met.chunks \cup {ts} |->
                              IF t = ts THEN size ELSE met.chunks[t]]
            IN [metrics |-> [withMet EXCEPT ![m] =
                               [total |-> met.total + size, chunks |-> chunks]],
                used |-> used + size,
                newMetric |-> ~known]

delMetMutNoDec(mets, l, used, m) ==
    IF m \notin DOMAIN mets
    THEN [metrics |-> mets, lru |-> l, used |-> used]
    ELSE [metrics |-> [k \in DOMAIN mets \ {m} |-> mets[k]],
          lru |-> delAll(l, m, DOMAIN mets[m].chunks),
          used |-> used]
delMetMutClearsLru(mets, l, used, m) ==
    IF m \notin DOMAIN mets
    THEN [metrics |-> mets, lru |-> l, used |-> used]
    ELSE [metrics |-> [k \in DOMAIN mets \ {m} |-> mets[k]],
          lru |-> <<>>,
          used |-> used - mets[m].total]
\* FlatAccnt.delMet: drop the metric, its recency entries and its total
delMet(mets, l, used, m) ==
    IF m \notin DOMAIN mets
    THEN [metrics |-> mets, lru |-> l, used |-> used]
    ELSE [metrics |-> [k \in DOMAIN mets \ {m} |-> mets[k]],
          lru |-> delAll(l, m, DOMAIN mets[m].chunks),
          used |-> used - mets[m].total]

\* sort.Sort(Uint32Asc(...)) of a set of timestamps
RECURSIVE SortAsc(_)
SortAsc(S) ==
    IF S = {} THEN <<>>
    ELSE LET lo == CHOOSE x \in S : \A y \in S : x <= y
         IN <<lo>> \o SortAsc(S \ {lo})

RECURSIVE SortDesc(_)
SortDesc(S) ==
    IF S = {} THEN <<>>
    ELSE LET hi == CHOOSE x \in S : \A y \in S : x >= y
         IN <<hi>> \o SortDesc(S \ {hi})

evictTargetsMutNoSort(met, tgt) ==
    SortDesc({ts \in DOMAIN met.chunks : ts <= tgt.Ts})
evictTargetsMutStrict(met, tgt) ==
    SortAsc({ts \in DOMAIN met.chunks : ts < tgt.Ts})
\* evict(): the chunks of the metric that are not younger than the
\* target, in ascending order
evictTargets(met, tgt) ==
    SortAsc({ts \in DOMAIN met.chunks : ts <= tgt.Ts})

overBudgetMutOffByOne(used, max) == used > max + 1
overBudgetMutZeroDisables(used, max) == max > 0 /\ used > max
overBudgetMutNever(used, max) == FALSE
\* the condition of the eviction loop of eventLoop
overBudget(used, max) == used > max

\* ----------------------------------------- the accountant as a function
\* one call of evict() on the state st, the ChunkIds it sends appended
\* to st.out
evictOnce(st) ==
    LET e == popped(st.lru)
        rest == popRest(st.lru)
        found == e # NoTarget /\ e.Metric \in DOMAIN st.metrics
    IN IF ~found THEN [st EXCEPT !.lru = rest]
       ELSE LET m == e.Metric
                met == st.metrics[m]
                tg == evictTargets(met, e)
                gone == SeqToSet(tg)
                freed == SumOver(met.chunks, gone)
                left == [t \in DOMAIN met.chunks \ gone |-> met.chunks[t]]
            IN [metrics |-> IF met.total - freed <= 0
                            THEN [k \in DOMAIN st.metrics \ {m} |-> st.metrics[k]]
                            ELSE [st.metrics EXCEPT ![m] =
                                     [total |-> met.total - freed, chunks |-> left]],
                lru |-> rest,
                used |-> st.used - freed,
                out |-> st.out \o [i \in 1..Len(tg) |-> EvictTarget(m, tg[i])]]

\* the eviction loop of eventLoop on the state st
RECURSIVE drainAll(_, _)
drainAll(st, max) ==
    IF ~overBudget(st.used, max) \/ st.lru = <<>> THEN st
    ELSE drainAll(evictOnce(st), max)

\* the switch of eventLoop on the state st, for the events that
\* neither stop nor reset the accountant
applyEvent(st, ev) ==
    IF ev.t = evnt_add_chnk
    THEN LET r == add(st.metrics, st.used, ev.metric, ev.ts, ev.size)
         IN [st EXCEPT !.metrics = r.metrics, !.used = r.used,
                       !.lru = touch(st.lru, EvictTarget(ev.metric, ev.ts))]
    ELSE IF ev.t = evnt_hit_chnk
    THEN [st EXCEPT !.lru = touch(st.lru, EvictTarget(ev.metric, ev.ts))]
    ELSE IF ev.t = evnt_del_met
    THEN LET r == delMet(st.metrics, st.lru, st.used, ev.metric)
         IN [st EXCEPT !.metrics = r.metrics, !.used = r.used, !.lru = r.lru]
    ELSE st

\* the state of NewFlatAccnt
FreshState == [metrics |-> NoMetrics, lru |-> <<>>, used |-> 0, out |-> <<>>]
NoFresh == [on |-> FALSE, dirty |-> FALSE, st |-> FreshState, pushed |-> <<>>]

\* bookkeeping at the receipt of ev: a Reset starts a fresh accountant,
\* which processes every later event
sinceResetAfter(ev) ==
    IF ev.t = evnt_reset
    THEN [on |-> TRUE, dirty |-> (metrics # NoMetrics \/ lru # <<>>),
          st |-> FreshState, pushed |-> <<>>]
    ELSE IF sinceReset.on
    THEN [sinceReset EXCEPT !.st = drainAll(applyEvent(@, ev), maxSize)]
    ELSE sinceReset

\* bookkeeping at the receipt of ev: the event before it is now complete;
\* it is remembered when the two form one of the pairs above
Receive(ev) ==
    /\ prevEv' = IF IsAddAdd(ev) \/ IsAddDel(ev) THEN curEv ELSE NoEvent
    /\ prevPre' = IF IsAddDel(ev) THEN curPre ELSE NoPre
    /\ prevPost' = IF IsAddAdd(ev)
                   THEN [metrics |-> metrics, used |-> cacheSizeUsed, lru |-> lru]
                   ELSE NoPost
    /\ curEv' = ev
    /\ curPre' = IF ev.t \in {evnt_add_chnk, evnt_del_met}
                 THEN [used |-> cacheSizeUsed,
                       mets |-> {m \in DOMAIN metrics : DOMAIN metrics[m].chunks # {}},
                       pushed |-> nPushed,
                       over |-> /\ ev.t = evnt_add_chnk
                                /\ EvictTarget(ev.metric, ev.ts) \notin LedgerIds
                                /\ cacheSizeUsed + ev.size > maxSize]
                 ELSE NoPre
    /\ nPushed' = nPushed
    /\ sinceReset' = sinceResetAfter(ev)
    /\ evStep' = NoStep

\* ----------------------------------------------------------- eventLoop
\* case event := <-a.eventQ, for an event of type t
Dequeue(t) ==
    /\ pc = "recv"
    /\ eventQ # <<>>
    /\ Head(eventQ).t = t
    /\ eventQ' = Tail(eventQ)
    /\ Receive(Head(eventQ))
    /\ UNCHANGED <<maxSize, evictQ, target, targets, nCalls, nDropped,
                   stopCalled>>

RecvMutAddNoTouch ==
    LET ev == Head(eventQ)
        r == add(metrics, cacheSizeUsed, ev.metric, ev.ts, ev.size)
    IN /\ Dequeue(evnt_add_chnk)
       /\ metrics' = r.metrics
       /\ cacheSizeUsed' = r.used
       /\ cacheMetricAdd' = cacheMetricAdd + (IF r.newMetric THEN 1 ELSE 0)
       /\ cacheChunkAdd' = cacheChunkAdd + 1
       /\ lru' = lru
       /\ pc' = "drain"
       /\ UNCHANGED <<cacheChunkEvict, cacheMetricEvict, pstate, result>>
\* case evnt_add_chnk
RecvAdd ==
    LET ev == Head(eventQ)
        r == add(metrics, cacheSizeUsed, ev.metric, ev.ts, ev.size)
    IN /\ Dequeue(evnt_add_chnk)
       /\ metrics' = r.metrics
       /\ cacheSizeUsed' = r.used
       /\ cacheMetricAdd' = cacheMetricAdd + (IF r.newMetric THEN 1 ELSE 0)
       /\ cacheChunkAdd' = cacheChunkAdd + 1
       /\ lru' = touch(lru, EvictTarget(ev.metric, ev.ts))
       /\ pc' = "drain"
       /\ UNCHANGED <<cacheChunkEvict, cacheMetricEvict, pstate, result>>

RecvHitMutKnownOnly ==
    LET ev == Head(eventQ)
        id == EvictTarget(ev.metric, ev.ts)
    IN /\ Dequeue(evnt_hit_chnk)
       /\ lru' = IF id \in LedgerIds THEN touch(lru, id) ELSE lru
       /\ pc' = "drain"
       /\ UNCHANGED <<metrics, cacheSizeUsed, cacheChunkAdd, cacheMetricAdd,
                      cacheChunkEvict, cacheMetricEvict, pstate, result>>
\* case evnt_hit_chnk
RecvHit ==
    LET ev == Head(eventQ)
    IN /\ Dequeue(evnt_hit_chnk)
       /\ lru' = touch(lru, EvictTarget(ev.metric, ev.ts))
       /\ pc' = "drain"
       /\ UNCHANGED <<metrics, cacheSizeUsed, cacheChunkAdd, cacheMetricAdd,
                      cacheChunkEvict, cacheMetricEvict, pstate, result>>

\* case evnt_del_met
RecvDelMet ==
    LET ev == Head(eventQ)
        r == delMet(metrics, lru, cacheSizeUsed, ev.metric)
    IN /\ Dequeue(evnt_del_met)
       /\ metrics' = r.metrics
       /\ lru' = r.lru
       /\ cacheSizeUsed' = r.used
       /\ pc' = "drain"
       /\ UNCHANGED <<cacheChunkAdd, cacheMetricAdd, cacheChunkEvict,
                      cacheMetricEvict, pstate, result>>

\* case evnt_get_total: getTotal sends cacheSizeUsed on the unbuffered
\* res_chan, on which the caller of GetTotal is receiving
RecvGetTotal ==
    LET ev == Head(eventQ)
    IN /\ Dequeue(evnt_get_total)
       /\ pstate[ev.res_chan] = "waiting"
       /\ result' = [result EXCEPT ![ev.res_chan] = cacheSizeUsed]
       /\ pstate' = [pstate EXCEPT ![ev.res_chan] = "idle"]
       /\ pc' = "drain"
       /\ UNCHANGED <<metrics, lru, cacheSizeUsed, cacheChunkAdd,
                      cacheMetricAdd, cacheChunkEvict, cacheMetricEvict>>

\* case evnt_stop: the goroutine returns
RecvStop ==
    /\ Dequeue(evnt_stop)
    /\ pc' = "stopped"
    /\ UNCHANGED <<metrics, lru, cacheSizeUsed, cacheChunkAdd, cacheMetricAdd,
                   cacheChunkEvict, cacheMetricEvict, pstate, result>>

RecvResetMutKeepsLru ==
    /\ Dequeue(evnt_reset)
    /\ metrics' = NoMetrics
    /\ lru' = lru
    /\ cacheSizeUsed' = 0
    /\ pc' = "drain"
    /\ UNCHANGED <<cacheChunkAdd, cacheMetricAdd, cacheChunkEvict,
                   cacheMetricEvict, pstate, result>>
\* case evnt_reset
RecvReset ==
    /\ Dequeue(evnt_reset)
    /\ metrics' = NoMetrics
    /\ lru' = lruReset
    /\ cacheSizeUsed' = 0
    /\ pc' = "drain"
    /\ UNCHANGED <<cacheChunkAdd, cacheMetricAdd, cacheChunkEvict,
                   cacheMetricEvict, pstate, result>>

\* the eviction loop ends: cacheSizeUsed.Peek() > a.maxSize is false
DrainDone ==
    /\ pc = "drain"
    /\ ~overBudget(cacheSizeUsed, maxSize)
    /\ pc' = "recv"
    /\ evStep' = NoStep
    /\ UNCHANGED <<metrics, maxSize, lru, evictQ, eventQ, cacheSizeUsed,
                   cacheChunkAdd, cacheMetricAdd, cacheChunkEvict,
                   cacheMetricEvict, target, targets, pstate, result, nCalls,
                   nDropped, stopCalled, curEv, curPre, prevEv, prevPre,
                   prevPost, nPushed, sinceReset>>

EvictPopMutKeepsTarget ==
    LET e == popped(lru)
        found == e # NoTarget /\ e.Metric \in DOMAIN metrics
    IN /\ pc = "drain"
       /\ overBudget(cacheSizeUsed, maxSize)
       /\ lru' = IF found THEN popRest(lru) ELSE lru
       /\ target' = e
       /\ targets' = IF found THEN evictTargets(metrics[e.Metric], e) ELSE <<>>
       /\ pc' = IF found THEN "evict_loop" ELSE "drain"
       /\ evStep' = [target |-> e, found |-> found,
                     chunks |-> IF found THEN metrics[e.Metric].chunks ELSE NoChunks,
                     oldest |-> OldestIn(lru, metrics),
                     batch |-> <<>>, taken |-> <<>>, done |-> ~found]
       /\ UNCHANGED <<metrics, maxSize, evictQ, eventQ, cacheSizeUsed,
                      cacheChunkAdd, cacheMetricAdd, cacheChunkEvict,
                      cacheMetricEvict, pstate, result, nCalls, nDropped, stopCalled,
                      curEv, curPre, prevEv, prevPre, prevPost, nPushed, sinceReset>>
\* evict() up to the sort: pop the target, return when there is none or
\* when its metric is unknown, otherwise collect the timestamps to evict
EvictPop ==
    LET e == popped(lru)
        found == e # NoTarget /\ e.Metric \in DOMAIN metrics
    IN /\ pc = "drain"
       /\ overBudget(cacheSizeUsed, maxSize)
       /\ lru' = popRest(lru)
       /\ target' = e
       /\ targets' = IF found THEN evictTargets(metrics[e.Metric], e) ELSE <<>>
       /\ pc' = IF found THEN "evict_loop" ELSE "drain"
       /\ evStep' = [target |-> e, found |-> found,
                     chunks |-> IF found THEN metrics[e.Metric].chunks ELSE NoChunks,
                     oldest |-> OldestIn(lru, metrics),
                     batch |-> <<>>, taken |-> <<>>, done |-> ~found]
       /\ UNCHANGED <<metrics, maxSize, evictQ, eventQ, cacheSizeUsed,
                      cacheChunkAdd, cacheMetricAdd, cacheChunkEvict,
                      cacheMetricEvict, pstate, result, nCalls, nDropped, stopCalled,
                      curEv, curPre, prevEv, prevPre, prevPost, nPushed, sinceReset>>

\* evict(), body of the loop over targets up to the send: take the size
\* of the chunk off the totals and count the eviction
EvictAccount ==
    /\ pc = "evict_loop"
    /\ targets # <<>>
    /\ LET m == target.Metric
           size == metrics[m].chunks[Head(targets)]
       IN /\ metrics' = [metrics EXCEPT ![m].total = @ - size]
          /\ cacheSizeUsed' = cacheSizeUsed - size
    /\ cacheChunkEvict' = cacheChunkEvict + 1
    /\ pc' = "evict_send"
    /\ UNCHANGED <<maxSize, lru, evictQ, eventQ, cacheChunkAdd, cacheMetricAdd,
                   cacheMetricEvict, target, targets, pstate, result, nCalls,
                   nDropped, stopCalled, evStep, curEv, curPre, prevEv,
                   prevPre, prevPost, nPushed, sinceReset>>

EvictSendMutNoDelete ==
    /\ pc = "evict_send"
    /\ Len(evictQ) < EvictQCap
    /\ LET m == target.Metric
           ts == Head(targets)
           id == EvictTarget(m, ts)
       IN /\ evictQ' = Append(evictQ, id)
          /\ metrics' = metrics
          /\ evStep' = [evStep EXCEPT !.batch = Append(@, id)]
    /\ targets' = Tail(targets)
    /\ nPushed' = nPushed + 1
    /\ sinceReset' = IF sinceReset.on
                     THEN [sinceReset EXCEPT !.pushed =
                              Append(@, EvictTarget(target.Metric, Head(targets)))]
                     ELSE sinceReset
    /\ pc' = "evict_loop"
    /\ UNCHANGED <<maxSize, lru, eventQ, cacheSizeUsed, cacheChunkAdd,
                   cacheMetricAdd, cacheChunkEvict, cacheMetricEvict, target,
                   pstate, result, nCalls, nDropped, stopCalled, curEv, curPre, prevEv,
                   prevPre, prevPost>>
\* evict(), rest of the body: the send on evictQ, which blocks while
\* evictQ is full, and the removal of the chunk
EvictSend ==
    /\ pc = "evict_send"
    /\ Len(evictQ) < EvictQCap
    /\ LET m == target.Metric
           ts == Head(targets)
           id == EvictTarget(m, ts)
       IN /\ evictQ' = Append(evictQ, id)
          /\ metrics' = [metrics EXCEPT ![m].chunks =
                            [t \in DOMAIN @ \ {ts} |-> @[t]]]
          /\ evStep' = [evStep EXCEPT !.batch = Append(@, id)]
    /\ targets' = Tail(targets)
    /\ nPushed' = nPushed + 1
    /\ sinceReset' = IF sinceReset.on
                     THEN [sinceReset EXCEPT !.pushed =
                              Append(@, EvictTarget(target.Metric, Head(targets)))]
                     ELSE sinceReset
    /\ pc' = "evict_loop"
    /\ UNCHANGED <<maxSize, lru, eventQ, cacheSizeUsed, cacheChunkAdd,
                   cacheMetricAdd, cacheChunkEvict, cacheMetricEvict, target,
                   pstate, result, nCalls, nDropped, stopCalled, curEv, curPre, prevEv,
                   prevPre, prevPost>>

\* evict() after the loop: a metric whose total is down to 0 is removed
EvictFinish ==
    /\ pc = "evict_loop"
    /\ targets = <<>>
    /\ LET m == target.Metric
       IN IF metrics[m].total <= 0
          THEN /\ cacheMetricEvict' = cacheMetricEvict + 1
               /\ metrics' = [k \in DOMAIN metrics \ {m} |-> metrics[k]]
          ELSE UNCHANGED <<cacheMetricEvict, metrics>>
    /\ pc' = "drain"
    /\ evStep' = [evStep EXCEPT !.done = TRUE]
    /\ UNCHANGED <<maxSize, lru, evictQ, eventQ, cacheSizeUsed, cacheChunkAdd,
                   cacheMetricAdd, cacheChunkEvict, target, targets, pstate,
                   result, nCalls, nDropped, stopCalled, curEv, curPre, prevEv, prevPre,
                   prevPost, nPushed, sinceReset>>

\* the chunk cache receives from GetEvictQ()
Consume ==
    /\ evictQ # <<>>
    /\ evictQ' = Tail(evictQ)
    /\ evStep' = IF evStep.target = NoTarget THEN evStep
                 ELSE [evStep EXCEPT !.taken = Append(@, Head(evictQ))]
    /\ UNCHANGED <<metrics, maxSize, lru, eventQ, cacheSizeUsed, cacheChunkAdd,
                   cacheMetricAdd, cacheChunkEvict, cacheMetricEvict, pc,
                   target, targets, pstate, result, nCalls, nDropped, stopCalled,
                   curEv, curPre, prevEv, prevPre, prevPost, nPushed, sinceReset>>

\* NewFlatAccnt(maxSize), with the eventLoop goroutine started
Init ==
    /\ maxSize \in 0..MaxBudget
    /\ metrics = NoMetrics
    /\ lru = <<>>
    /\ evictQ = <<>>
    /\ eventQ = <<>>
    /\ cacheSizeUsed = 0
    /\ cacheChunkAdd = 0
    /\ cacheMetricAdd = 0
    /\ cacheChunkEvict = 0
    /\ cacheMetricEvict = 0
    /\ pc = "recv"
    /\ target = NoTarget
    /\ targets = <<>>
    /\ pstate = [p \in Producers |-> "idle"]
    /\ result = [p \in Producers |-> 0]
    /\ nCalls = 0
    /\ nDropped = 0
    /\ stopCalled = FALSE
    /\ evStep = NoStep
    /\ curEv = NoEvent
    /\ curPre = NoPre
    /\ prevEv = NoEvent
    /\ prevPre = NoPre
    /\ prevPost = NoPost
    /\ nPushed = 0
    /\ sinceReset = NoFresh

Next ==
    \/ \E p \in Producers, m \in Metrics, t \in Tss, s \in Sizes : AddChunk(p, m, t, s)
    \/ \E p \in Producers, m \in Metrics, t \in Tss : HitChunk(p, m, t)
    \/ \E p \in Producers, m \in Metrics : DelMetric(p, m)
    \/ \E p \in Producers : Reset(p)
    \/ \E p \in Producers : Stop(p)
    \/ \E p \in Producers : GetTotal(p)
    \/ RecvAdd
    \/ RecvHit
    \/ RecvDelMet
    \/ RecvGetTotal
    \/ RecvStop
    \/ RecvReset
    \/ DrainDone
    \/ EvictPop
    \/ EvictAccount
    \/ EvictSend
    \/ EvictFinish
    \/ Consume

Spec == Init /\ [][Next]_vars

\* the steps of the eventLoop goroutine
AcctStep ==
    \/ RecvAdd
    \/ RecvHit
    \/ RecvDelMet
    \/ RecvGetTotal
    \/ RecvStop
    \/ RecvReset
    \/ DrainDone
    \/ EvictPop
    \/ EvictAccount
    \/ EvictSend
    \/ EvictFinish

\* NewFlatAccnt(maxSize), with MaxFairCalls calls of the API to come
FairInit ==
    /\ maxSize \in 0..MaxBudget
    /\ metrics = NoMetrics
    /\ lru = <<>>
    /\ evictQ = <<>>
    /\ eventQ = <<>>
    /\ cacheSizeUsed = 0
    /\ cacheChunkAdd = 0
    /\ cacheMetricAdd = 0
    /\ cacheChunkEvict = 0
    /\ cacheMetricEvict = 0
    /\ pc = "recv"
    /\ target = NoTarget
    /\ targets = <<>>
    /\ pstate = [p \in Producers |-> "idle"]
    /\ result = [p \in Producers |-> 0]
    /\ nCalls = MaxCalls - MaxFairCalls
    /\ nDropped = 0
    /\ stopCalled = FALSE
    /\ evStep = NoStep
    /\ curEv = NoEvent
    /\ curPre = NoPre
    /\ prevEv = NoEvent
    /\ prevPre = NoPre
    /\ prevPost = NoPost
    /\ nPushed = 0
    /\ sinceReset = NoFresh

\* the eventLoop goroutine is scheduled while it can take a step, and the
\* chunk cache keeps receiving from the evict queue
FairSpec == FairInit /\ [][Next]_vars /\ WF_vars(AcctStep) /\ WF_vars(Consume)

\* ------------------------------------------------------------ properties
SumLedger(mets) ==
    SumOver([m \in DOMAIN mets |-> SumChunks(mets[m].chunks)], DOMAIN mets)

IsSuffix(s, l) ==
    /\ Len(s) <= Len(l)
    /\ SubSeq(l, Len(l) - Len(s) + 1, Len(l)) = s

\* C1: with maxSize > 0, whenever the accountant has finished an event and
\* its eviction loop and is ready to receive the next event,
\* cacheSizeUsed <= maxSize or the recency index is empty.
C1_UsedWithinMax ==
    (pc = "recv" /\ maxSize > 0) => (cacheSizeUsed <= maxSize \/ lru = <<>>)
\* the budget is used up after evictions, with chunks left to evict
C1_Witness ==
    /\ pc = "recv" /\ maxSize > 0 /\ cacheChunkEvict > 0
    /\ cacheSizeUsed = maxSize /\ lru # <<>>

\* C2: outside the body of the eviction loop, the total of every metric
\* is the sum of the sizes of its chunks and cacheSizeUsed is the sum of
\* the sizes of all chunks of the ledger.
C2_TotalsAreSums ==
    pc # "evict_send" =>
        /\ \A m \in DOMAIN metrics :
              metrics[m].total = SumChunks(metrics[m].chunks)
        /\ cacheSizeUsed = SumLedger(metrics)
\* the ledger holds bytes after adds and evictions
C2_Witness ==
    /\ pc = "recv" /\ cacheChunkEvict > 0 /\ cacheChunkAdd > 1
    /\ cacheSizeUsed > 0

\* C3 as stated: between events the recency index and the ledger hold
\* the same set of ChunkIds.
C3_SameIds == pc = "recv" => LruIds = LedgerIds
\* C3 as amended: between events every ChunkId of the ledger is in the
\* recency index (the recency index may hold further ChunkIds).
C3_LedgerInRecency == pc = "recv" => LedgerIds \subseteq LruIds
\* a ledger with chunks next to a recency entry that has no chunk
C3_Witness ==
    /\ pc = "recv" /\ LedgerIds # {} /\ LruIds \ LedgerIds # {}

\* C4: with eventQ full, a call of AddChunk, HitChunk, DelMetric, Reset or
\* Stop is possible at once, leaves the caller idle, and changes neither
\* eventQ nor the ledger, the recency index, cacheSizeUsed, a counter or
\* the position of the accountant.
C4_CallsPossible ==
    \A p \in Producers :
        (pstate[p] = "idle" /\ nCalls < MaxCalls /\ Len(eventQ) = EventQCap) =>
            /\ \A m \in Metrics, t \in Tss, s \in Sizes : ENABLED AddChunk(p, m, t, s)
            /\ \A m \in Metrics, t \in Tss : ENABLED HitChunk(p, m, t)
            /\ \A m \in Metrics : ENABLED DelMetric(p, m)
            /\ ENABLED Reset(p)
            /\ ENABLED Stop(p)
C4_DropStep ==
    (nCalls' # nCalls /\ Len(eventQ) = EventQCap) =>
        /\ eventQ' = eventQ
        /\ UNCHANGED <<metrics, lru, cacheSizeUsed, cacheChunkAdd,
                       cacheMetricAdd, cacheChunkEvict, cacheMetricEvict,
                       evictQ, pc, target, targets>>
        /\ \A p \in Producers :
              (pstate[p] = "idle" /\ pstate'[p] # "idle") => GetTotal(p)
C4_NonBlockingDrop == [](C4_CallsPossible) /\ [][C4_DropStep]_vars
\* an event was discarded while eventQ is full and the accountant is blocked
\* in the send on a full evictQ
C4_Witness ==
    /\ Len(eventQ) = EventQCap /\ nDropped > 0
    /\ pc = "evict_send" /\ Len(evictQ) = EvictQCap

\* C5: whenever a call of evict() has pushed a batch, the batch contains
\* the chunk that was touched least recently among the chunks of the
\* ledger at the time of the pop.
C5_LruOrder ==
    (evStep.done /\ evStep.batch # <<>>) =>
        evStep.oldest \in SeqToSet(evStep.batch)

\* C6: a call of evict() with popped target (m, t) pushes exactly the
\* ChunkIds (m, ts) of the ledger with ts <= t, and afterwards the ledger
\* holds no chunk of m with ts <= t.
C6_BatchIsPrefix ==
    evStep.done =>
        LET m == evStep.target.Metric
            t == evStep.target.Ts
        IN /\ SeqToSet(evStep.batch) =
                 {EvictTarget(m, ts) : ts \in {x \in DOMAIN evStep.chunks : x <= t}}
           /\ m \in DOMAIN metrics =>
                 \A ts \in DOMAIN metrics[m].chunks : ts > t
\* a call of evict() that pushed the target and an older chunk
C6_Witness == evStep.done /\ Len(evStep.batch) = 2

C8_ZeroDisables == maxSize = 0 => (cacheChunkEvict = 0 /\ evictQ = <<>>)
\* C8 as amended: with maxSize = 0 the budget is zero bytes: whenever the
\* accountant is ready to receive the next event, cacheSizeUsed = 0 and
\* the ledger holds no chunk of nonzero size.
C8_ZeroBudget ==
    (maxSize = 0 /\ pc = "recv") =>
        /\ cacheSizeUsed = 0
        /\ \A m \in DOMAIN metrics : \A t \in DOMAIN metrics[m].chunks :
              metrics[m].chunks[t] = 0
\* chunks were evicted under maxSize = 0
C8_Witness == maxSize = 0 /\ pc = "recv" /\ cacheChunkEvict > 0

\* the last two events processed were AddChunk of the same ChunkId
AddedTwice ==
    /\ pc = "recv"
    /\ prevEv.t = evnt_add_chnk /\ curEv.t = evnt_add_chnk
StateIsPrevPost ==
    /\ metrics = prevPost.metrics
    /\ cacheSizeUsed = prevPost.used
    /\ lru = prevPost.lru
\* C9 as stated: processing AddChunk(m, t, s) twice in a row leaves the
\* ledger, cacheSizeUsed and the recency order as processing it once.
C9_AddTwice == AddedTwice => StateIsPrevPost
\* C9 as amended: if (m, t) is in the ledger once the first AddChunk has
\* been processed, processing AddChunk(m, t, s') leaves the ledger,
\* cacheSizeUsed and the recency order as they were.
C9_AddTwiceSurvived ==
    (AddedTwice /\ EvictTarget(curEv.metric, curEv.ts) \in LedgerIdsOf(prevPost.metrics))
        => StateIsPrevPost
\* a second add with another size of a chunk that is in the ledger
C9_Witness ==
    /\ AddedTwice
    /\ EvictTarget(curEv.metric, curEv.ts) \in LedgerIdsOf(prevPost.metrics)
    /\ curEv.size # prevEv.size

\* the last two events processed were AddChunk(m, t, s), received when m
\* had no chunk in the ledger, and DelMetric(m)
AddedThenDeleted ==
    /\ pc = "recv"
    /\ prevEv.t = evnt_add_chnk /\ curEv.t = evnt_del_met
    /\ prevEv.metric \notin prevPre.mets
RoundTripHolds ==
    /\ cacheSizeUsed = prevPre.used
    /\ EvictTarget(prevEv.metric, prevEv.ts) \notin LruIds
\* C10 as stated: AddChunk(m, t, s) followed by DelMetric(m) returns
\* cacheSizeUsed to its value before the add and leaves no recency entry
\* for (m, t).
C10_RoundTrip == AddedThenDeleted => RoundTripHolds
\* C10 as amended: the same, provided the add stays within the budget
\* (cacheSizeUsed + s <= maxSize), so that it induces no eviction.
C10_RoundTripNoEvict ==
    (AddedThenDeleted /\ prevPre.used + prevEv.size <= maxSize) => RoundTripHolds
\* a chunk with bytes was added within the budget and its metric deleted
C10_Witness ==
    /\ AddedThenDeleted /\ prevPre.used + prevEv.size <= maxSize
    /\ prevEv.size > 0

\* the step in which the eventLoop applies a received event of type t
Applies(t) == pc = "recv" /\ pc' = "drain" /\ Head(eventQ).t = t
\* the entries of l that belong to metrics other than m
OthersOf(l, m) == SelectSeq(l, LAMBDA x : x.Metric # m)

\* C11: the step that applies DelMetric(m) removes m from the ledger,
\* takes m's total off cacheSizeUsed, sends nothing on evictQ (nor does
\* the eviction loop after it, which finds cacheSizeUsed <= maxSize) and
\* leaves the entries and recency entries of the other metrics as they
\* were; for a metric that is not in the ledger it changes nothing.
C11_DelStep ==
    Applies(evnt_del_met) =>
        LET m == Head(eventQ).metric
            known == m \in DOMAIN metrics
        IN /\ m \notin DOMAIN metrics'
           /\ DOMAIN metrics' = DOMAIN metrics \ {m}
           /\ \A k \in DOMAIN metrics \ {m} : metrics'[k] = metrics[k]
           /\ cacheSizeUsed' =
                 cacheSizeUsed - (IF known THEN metrics[m].total ELSE 0)
           /\ OthersOf(lru', m) = OthersOf(lru, m)
           /\ \A t \in Tss : known /\ t \in DOMAIN metrics[m].chunks =>
                 EvictTarget(m, t) \notin SeqToSet(lru')
           /\ evictQ' = evictQ /\ nPushed' = nPushed
           /\ cacheChunkEvict' = cacheChunkEvict
           /\ ~(cacheSizeUsed' > maxSize)
           /\ ~known => (metrics' = metrics /\ lru' = lru)
C11_DelMetricFrame == [][C11_DelStep]_vars
\* DelMetric was applied to a metric with chunks and bytes, next to
\* another metric that stays
C11_Witness ==
    /\ pc = "recv" /\ curEv.t = evnt_del_met
    /\ curEv.metric \in curPre.mets
    /\ curPre.used > cacheSizeUsed
    /\ metrics # NoMetrics

\* C13: every send of (m, t) on evictQ happens while (m, t) is in the
\* ledger and removes it, a ChunkId only enters the ledger in the step
\* that applies an AddChunk for it, and cacheChunkEvict is the number of
\* sends (plus the one being sent while the accountant is in the send).
C13_PushStep ==
    nPushed' # nPushed =>
        LET id == EvictTarget(target.Metric, Head(targets))
        IN /\ id \in LedgerIds
           /\ id \notin LedgerIdsOf(metrics')
           /\ evictQ' = Append(evictQ, id)
           /\ nPushed' = nPushed + 1
C13_EnterStep ==
    \A m \in Metrics, t \in Tss :
        (EvictTarget(m, t) \notin LedgerIds /\
         EvictTarget(m, t) \in LedgerIdsOf(metrics')) =>
            /\ Applies(evnt_add_chnk)
            /\ Head(eventQ).metric = m /\ Head(eventQ).ts = t
C13_Counter ==
    cacheChunkEvict = nPushed + (IF pc = "evict_send" THEN 1 ELSE 0)
C13_EvictedOncePerAdd ==
    [](C13_Counter) /\ [][C13_PushStep /\ C13_EnterStep]_vars
\* the same ChunkId was sent a second time, after it was added again
C13_Witness ==
    /\ Len(evStep.batch) = 1 /\ evictQ = evStep.batch
    /\ evStep.taken = evStep.batch
    /\ nPushed = 2 /\ cacheChunkAdd = 2

\* C15: when the accountant is ready to receive the next event after an
\* AddChunk that took cacheSizeUsed above maxSize, at least one ChunkId
\* has been sent on evictQ since the add was received, and
\* cacheSizeUsed <= maxSize.
C15_EvictBeforeNext ==
    (pc = "recv" /\ curEv.t = evnt_add_chnk /\ curPre.over) =>
        (nPushed > curPre.pushed /\ cacheSizeUsed <= maxSize)
\* such an add has been processed, with chunks left in the ledger
C15_Witness ==
    /\ pc = "recv" /\ curEv.t = evnt_add_chnk /\ curPre.over
    /\ LedgerIds # {}

\* C16: after a call of evict(), no ChunkId it sent on evictQ is in the
\* recency index.
C16_VictimsLeaveRecency ==
    evStep.done => SeqToSet(evStep.batch) \cap LruIds = {}

\* the step in which the eventLoop applies a received HitChunk leaves the
\* ledger, cacheSizeUsed and evictQ alone
HitFrame ==
    /\ metrics' = metrics
    /\ cacheSizeUsed' = cacheSizeUsed
    /\ evictQ' = evictQ /\ nPushed' = nPushed
    /\ ~(cacheSizeUsed' > maxSize)
\* C17: the step that applies HitChunk(m, t) puts (m, t) at the most
\* recently used end of the recency index and keeps the order of the
\* other entries; it changes no metric entry and not cacheSizeUsed, and
\* nothing is sent on evictQ (the eviction loop after it finds
\* cacheSizeUsed <= maxSize), whether or not (m, t) is in the ledger.
C17_HitStep ==
    Applies(evnt_hit_chnk) =>
        LET id == EvictTarget(Head(eventQ).metric, Head(eventQ).ts)
        IN /\ lru' # <<>> /\ lru'[Len(lru')] = id
           /\ SubSeq(lru', 1, Len(lru') - 1) = Remove(lru, id)
           /\ HitFrame
C17_HitOnlyTouches == [][C17_HitStep]_vars
\* a HitChunk of a chunk that is not in the ledger was processed, next to
\* chunks that are
C17_Witness ==
    /\ pc = "recv" /\ curEv.t = evnt_hit_chnk
    /\ EvictTarget(curEv.metric, curEv.ts) \notin LedgerIds
    /\ EvictTarget(curEv.metric, curEv.ts) \in LruIds
    /\ LedgerIds # {}

\* C19: every chunk entry a call of evict() removes from the ledger is
\* sent on evictQ in that call, and evict() removes a metric entry only
\* when it has no chunks left.
C19_NoSilentLoss ==
    (evStep.done /\ evStep.found) =>
        LET m == evStep.target.Metric
            before == {EvictTarget(m, t) : t \in DOMAIN evStep.chunks}
        IN (before \ LedgerIds) \subseteq SeqToSet(evStep.batch)

\* C20: between events every ChunkId of the ledger has an entry in the
\* recency index, so that it can be popped; with cacheSizeUsed > 0 the
\* recency index is not empty.
C20_LedgerSelectable ==
    pc = "recv" =>
        /\ \A id \in LedgerIds : \E i \in 1..Len(lru) : lru[i] = id
        /\ cacheSizeUsed > 0 => lru # <<>>
\* two chunks with bytes are in the ledger after an eviction
C20_Witness ==
    /\ pc = "recv" /\ cacheChunkEvict > 0 /\ cacheSizeUsed > 0
    /\ Cardinality(LedgerIds) >= 2

\* C12: once Reset has been applied, the ledger and the recency index
\* are empty and cacheSizeUsed is 0; and whenever the accountant is ready
\* to receive the next event, the ledger, the recency order, cacheSizeUsed
\* and the ChunkIds sent on evictQ since the Reset are those of a fresh
\* accountant with the same maxSize that was given the events received
\* since the Reset.
C12_ResetIsFresh ==
    /\ curEv.t = evnt_reset =>
          (metrics = NoMetrics /\ lru = <<>> /\ cacheSizeUsed = 0)
    /\ (pc = "recv" /\ sinceReset.on) =>
          /\ metrics = sinceReset.st.metrics
          /\ lru = sinceReset.st.lru
          /\ cacheSizeUsed = sinceReset.st.used
          /\ sinceReset.pushed = sinceReset.st.out
\* a Reset of an accountant that held something, followed by an add that
\* led to an eviction
C12_Witness ==
    /\ pc = "recv" /\ sinceReset.on /\ sinceReset.dirty
    /\ sinceReset.pushed # <<>>
    /\ curEv.t = evnt_add_chnk

\* C14: the eviction loop terminates: while the consumer of the evict
\* queue keeps receiving, an accountant that is in the loop
\* "for cacheSizeUsed > maxSize { evict() }" eventually leaves it and is
\* ready to receive the next event, also after a pop of an empty index or
\* of a ChunkId whose metric is not in the ledger.
InDrain == pc \in {"drain", "evict_loop", "evict_send"}
C14_DrainTerminates == InDrain ~> (pc = "recv")
\* evict() has returned early on a ChunkId whose metric is unknown, and
\* the loop goes on because the cache is still over budget
C14_Witness ==
    /\ pc = "drain" /\ evStep.done /\ ~evStep.found
    /\ evStep.target # NoTarget
    /\ overBudget(cacheSizeUsed, maxSize)

\* C18: every call of GetTotal returns, unless Stop has been called
C18_GetTotalReturns ==
    \A p \in Producers :
        (pstate[p] = "waiting") ~> (pstate[p] = "idle" \/ stopCalled)

=============================================================================
